---------------------------- MODULE Spec2Model ----------------------------
(***************************************************************************)
(* InterviewGen: the session state machine of the App component            *)
(* (src/App.tsx) and the gateway functions of services/geminiService.      *)
(*                                                                         *)
(* The React state of App is the state of the model.  Every event handler  *)
(* is one action; an async handler is split at its awaits: the part before *)
(* the first await is the action of the user intent, and each continuation *)
(* is the action of the gateway response that resumes it.  The suspended   *)
(* handlers are the entries of `pending', in the order their requests      *)
(* were issued, each holding what its closure captured.                    *)
(*                                                                         *)
(* Strings are sequences of tokens; the token " " is a whitespace          *)
(* character, so that trim() and the truthiness of a string are computed.  *)
(* A nullable value is the empty set (null) or a singleton.                *)
(***************************************************************************)
EXTENDS Integers, Sequences, FiniteSets, TLC

VARIABLES
    view,               \* 'landing' | 'dashboard'
    loading,            \* boolean
    error,              \* string | null
    role,               \* string
    resumeText,         \* string
    resumeFile,         \* {data, mimeType, name} | null
    analysis,           \* ResumeAnalysis | null
    config,             \* InterviewConfig
    messages,           \* ChatMessage[]
    userInput,          \* string
    isTyping,           \* boolean
    evaluation,         \* EvaluationResult | null
    evaluationHistory,  \* Record<number, EvaluationResult>
    pending,            \* suspended handlers, one per outstanding gateway request
    download,           \* the report file the browser was last handed | null
    lastCall            \* the last call of a gateway function with its response | null

vars == <<view, loading, error, role, resumeText, resumeFile, analysis, config,
          messages, userInput, isTyping, evaluation, evaluationHistory, pending,
          download, lastCall>>

----------------------------------------------------------------------------
(* Bounds of the model *)

\* A send is modelled only while the transcript is shorter than this.
MaxTurns == 2

\* A gateway request is issued only while fewer than this are outstanding.
MaxPending == 2

----------------------------------------------------------------------------
(* Values *)

Null == {}
Some(v) == {v}
IsNull(o) == o = {}
Get(o) == CHOOSE v \in o : TRUE

EmptyStr == << >>
Str(tok) == <<tok>>
Whitespace == {" "}

\* String.prototype.trim: drop the leading and the trailing whitespace.
RECURSIVE TrimStart(_)
TrimStart(s) ==
    IF s # << >> /\ Head(s) \in Whitespace THEN TrimStart(Tail(s)) ELSE s

RECURSIVE TrimEnd(_)
TrimEnd(s) ==
    IF s # << >> /\ s[Len(s)] \in Whitespace
    THEN TrimEnd(SubSeq(s, 1, Len(s) - 1))
    ELSE s

Trim(s) == TrimEnd(TrimStart(s))

\* useState('Senior Frontend Developer'), its spaces as whitespace tokens.
DefaultRole == <<"Senior", " ", "Frontend", " ", "Developer">>

\* What the user may type into the three text fields.
RoleInputs == {EmptyStr, DefaultRole}
ResumeInputs == {EmptyStr, Str("resume")}
UserInputs == {EmptyStr, Str(" "), Str("answer")}
ResumeFiles == {[data |-> "base64", mimeType |-> "application/pdf", name |-> "cv.pdf"]}

Difficulty == {"beginner", "intermediate", "advanced"}
Category == {"technical", "behavioral", "scenario", "hr-fit"}
Duration == {"15m", "30m", "60m"}
InterviewerStyle == {"faang", "startup", "service-based"}

InitialConfig ==
    [difficulty |-> "intermediate", category |-> "technical",
     duration |-> "30m", style |-> "faang"]

\* The configuration buttons the model presses.
DifficultyInputs == {"advanced"}
CategoryInputs == {"behavioral"}
DurationInputs == {"60m"}
StyleInputs == {"startup"}

ChatMessage(r, t) == [role |-> r, text |-> t]

\* Response bodies of the service.
FullAnalysis ==
    [missingSkills |-> <<"GraphQL">>, followUpQuestions |-> <<"q1", "q2", "q3">>,
     skillMap |-> [dsa |-> 70, systemDesign |-> 55, communication |-> 80]]
AnalysisBodies == {FullAnalysis}

FullEvaluation ==
    [score |-> 7, feedback |-> "good", improvement_tips |-> <<"tip">>,
     model_answer_outline |-> "outline"]
EvaluationBodies == {FullEvaluation}

ResponseTexts == {EmptyStr, Str("question")}

\* err.message of a rejected gateway call.
ErrMessages == {EmptyStr, Str("Network error")}

EmptyHistory == [k \in {} |-> FullEvaluation]

----------------------------------------------------------------------------
(* Suspended handlers *)

Request(op, call, history, idx, question, answer) ==
    [op |-> op, call |-> call, history |-> history, idx |-> idx,
     question |-> question, answer |-> answer]

\* The sequence s without its i-th element.
RemoveAt(s, i) == SubSeq(s, 1, i - 1) \o SubSeq(s, i + 1, Len(s))

Outstanding(call) == {i \in 1..Len(pending) : pending[i].call = call}

----------------------------------------------------------------------------
Init ==
    /\ view = "landing"
    /\ loading = FALSE
    /\ error = Null
    /\ role = DefaultRole
    /\ resumeText = EmptyStr
    /\ resumeFile = Null
    /\ analysis = Null
    /\ config = InitialConfig
    /\ messages = << >>
    /\ userInput = EmptyStr
    /\ isTyping = FALSE
    /\ evaluation = Null
    /\ evaluationHistory = EmptyHistory
    /\ pending = << >>
    /\ download = Null
    /\ lastCall = Null


----------------------------------------------------------------------------
(* Landing view: the intake form *)

\* <input value={role} onChange=...>
SetRole ==
    /\ view = "landing"
    /\ \E r \in RoleInputs : role' = r
    /\ UNCHANGED <<lastCall, download, view, loading, error, resumeText,
                   resumeFile, analysis, config, messages, userInput, isTyping,
                   evaluation, evaluationHistory, pending>>

\* <textarea value={resumeText} onChange=...>
SetResumeText ==
    /\ view = "landing"
    /\ \E t \in ResumeInputs : resumeText' = t
    /\ UNCHANGED <<lastCall, download, view, loading, error, role, resumeFile,
                   analysis, config, messages, userInput, isTyping, evaluation,
                   evaluationHistory, pending>>

\* <input type="file" onChange=...>: the file has been read, setResumeFile runs.
SetResumeFile ==
    /\ view = "landing"
    /\ \E f \in ResumeFiles : resumeFile' = Some(f)
    /\ UNCHANGED <<lastCall, download, view, loading, error, role, resumeText,
                   analysis, config, messages, userInput, isTyping, evaluation,
                   evaluationHistory, pending>>

----------------------------------------------------------------------------
(* handleStart *)

ValidationMessage == Str("Please provide a role and a resume to continue.")
InitFailedMessage == Str("Failed to initialize interview.")

\* !role || (!resumeText && !resumeFile)
StartInputInvalid ==
    role = EmptyStr \/ (resumeText = EmptyStr /\ IsNull(resumeFile))

\* handleStart as it would be without the return of its validation branch:
\* the error is set and at once cleared, and the analysis is requested anyway.
handleStartWithoutReturn(msgs) ==
    /\ messages' = msgs
    /\ Len(pending) < MaxPending
    /\ loading' = TRUE
    /\ error' = Null
    /\ pending' = Append(pending,
           Request("start", "analyzeResume", << >>, -1, EmptyStr, EmptyStr))
    /\ UNCHANGED <<lastCall, download, view, role, resumeText, resumeFile,
                   analysis, config, userInput, isTyping, evaluation,
                   evaluationHistory>>

\* handleStart up to its first await.  msgs is the transcript the caller left:
\* the Reset Session button calls setMessages([]) before it calls handleStart.
handleStart(msgs) ==
    /\ messages' = msgs
    /\ IF StartInputInvalid
       THEN /\ error' = Some(ValidationMessage)
            /\ UNCHANGED <<loading, pending>>
       ELSE /\ Len(pending) < MaxPending
            /\ loading' = TRUE
            /\ error' = Null
            /\ pending' = Append(pending,
                   Request("start", "analyzeResume", << >>, -1, EmptyStr, EmptyStr))
    /\ UNCHANGED <<lastCall, download, view, role, resumeText, resumeFile,
                   analysis, config, userInput, isTyping, evaluation,
                   evaluationHistory>>

\* The Get Started button: onClick={handleStart} disabled={loading}
GetStarted ==
    /\ view = "landing"
    /\ ~loading
    /\ handleStart(messages)

\* The Reset Session button: onClick={() => { setMessages([]); handleStart(); }}
ResetSession ==
    /\ view = "dashboard"
    /\ handleStart(<< >>)

\* handleStart after its first await as it would be if a new session also
\* put the configuration back to its initial value.
StartAnalysisResolvedResettingConfig(i) ==
    /\ pending[i].op = "start"
    /\ pending[i].call = "analyzeResume"
    /\ \E body \in AnalysisBodies : analysis' = Some(body)
    /\ view' = "dashboard"
    /\ config' = InitialConfig
    /\ evaluationHistory' = EmptyHistory
    /\ messages' = << >>
    /\ isTyping' = TRUE
    /\ pending' = Append(RemoveAt(pending, i),
           Request("start", "getNextInterviewerMessage", << >>, -1, EmptyStr, EmptyStr))
    /\ UNCHANGED <<lastCall, download, loading, error, role, resumeText,
                   resumeFile, userInput, evaluation>>

\* analyzeResume resolved: handleStart runs on to its second await.
StartAnalysisResolved(i) ==
    /\ pending[i].op = "start"
    /\ pending[i].call = "analyzeResume"
    /\ \E body \in AnalysisBodies : analysis' = Some(body)
    /\ view' = "dashboard"
    /\ evaluationHistory' = EmptyHistory
    /\ messages' = << >>
    /\ isTyping' = TRUE
    /\ pending' = Append(RemoveAt(pending, i),
           Request("start", "getNextInterviewerMessage", << >>, -1, EmptyStr, EmptyStr))
    /\ UNCHANGED <<lastCall, download, loading, error, role, resumeText,
                   resumeFile, config, userInput, evaluation>>

\* err.message || "Failed to initialize interview."
StartErrorMessage(m) == IF m # EmptyStr THEN m ELSE InitFailedMessage

\* The catch of handleStart as it would be if a failed start also discarded
\* the analysis (setAnalysis(null)).
StartRejectedClearingAnalysis(i) ==
    /\ pending[i].op = "start"
    /\ \E m \in ErrMessages : error' = Some(StartErrorMessage(m))
    /\ analysis' = Null
    /\ loading' = FALSE
    /\ isTyping' = FALSE
    /\ pending' = RemoveAt(pending, i)
    /\ UNCHANGED <<lastCall, download, view, role, resumeText, resumeFile, config,
                   messages, userInput, evaluation, evaluationHistory>>

\* catch and finally of handleStart, after either await rejected.
StartRejected(i) ==
    /\ pending[i].op = "start"
    /\ \E m \in ErrMessages : error' = Some(StartErrorMessage(m))
    /\ loading' = FALSE
    /\ isTyping' = FALSE
    /\ pending' = RemoveAt(pending, i)
    /\ UNCHANGED <<lastCall, download, view, role, resumeText, resumeFile,
                   analysis, config, messages, userInput, evaluation,
                   evaluationHistory>>

FallbackReply == Str("I apologize, could you repeat that?")

\* getNextInterviewerMessage as it would be without the fallback: return response.text;
InterviewerReplyVerbatim(text) == text

\* getNextInterviewerMessage: response.text || "I apologize, could you repeat that?"
InterviewerReply(text) == IF text # EmptyStr THEN text ELSE FallbackReply

\* The end of handleStart as it would be with the first message appended to the
\* transcript (prev => [...prev, msg]) instead of replacing it.
StartFirstMessageAppended(i) ==
    /\ pending[i].op = "start"
    /\ pending[i].call = "getNextInterviewerMessage"
    /\ \E text \in ResponseTexts :
         messages' = Append(messages, ChatMessage("interviewer", InterviewerReply(text)))
    /\ loading' = FALSE
    /\ isTyping' = FALSE
    /\ pending' = RemoveAt(pending, i)
    /\ UNCHANGED <<lastCall, download, view, error, role, resumeText,
                   resumeFile, analysis, config, userInput, evaluation,
                   evaluationHistory>>

\* getNextInterviewerMessage resolved: handleStart runs to its end.
StartFirstMessageResolved(i) ==
    /\ pending[i].op = "start"
    /\ pending[i].call = "getNextInterviewerMessage"
    /\ \E text \in ResponseTexts :
         messages' = <<ChatMessage("interviewer", InterviewerReply(text))>>
    /\ loading' = FALSE
    /\ isTyping' = FALSE
    /\ pending' = RemoveAt(pending, i)
    /\ UNCHANGED <<lastCall, download, view, error, role, resumeText,
                   resumeFile, analysis, config, userInput, evaluation,
                   evaluationHistory>>

----------------------------------------------------------------------------
(* handleSendMessage *)

\* <textarea value={userInput} onChange=...>
SetUserInput ==
    /\ view = "dashboard"
    /\ \E t \in UserInputs : userInput' = t
    /\ UNCHANGED <<lastCall, download, view, loading, error, role, resumeText,
                   resumeFile, analysis, config, messages, isTyping, evaluation,
                   evaluationHistory, pending>>

\* The guard of handleSendMessage as it would be without the test of the
\* input: if (isTyping) return;
SendIgnoredOnlyWhileTyping == isTyping

\* if (!userInput.trim() || isTyping) return;
SendIgnored == Trim(userInput) = EmptyStr \/ isTyping

\* handleSendMessage as it would be if the request were given `messages', the
\* transcript without the turn just appended, instead of currentMessages.
handleSendMessageStaleHistory ==
    /\ view = "dashboard"
    /\ IF SendIgnored
       THEN UNCHANGED vars
       ELSE /\ Len(messages) < MaxTurns
            /\ Len(pending) < MaxPending
            /\ messages' = Append(messages, ChatMessage("user", userInput))
            /\ pending' = Append(pending,
                   Request("send", "getNextInterviewerMessage", messages,
                           -1, EmptyStr, EmptyStr))
            /\ userInput' = EmptyStr
            /\ isTyping' = TRUE
            /\ evaluation' = Null
            /\ UNCHANGED <<lastCall, download, view, loading, error, role, resumeText,
                           resumeFile, analysis, config, evaluationHistory>>

\* handleSendMessage up to its await (the Send button, or Enter in the textarea).
handleSendMessage ==
    /\ view = "dashboard"
    /\ IF SendIgnored
       THEN UNCHANGED vars
       ELSE /\ Len(messages) < MaxTurns
            /\ Len(pending) < MaxPending
            /\ LET currentMessages == Append(messages, ChatMessage("user", userInput))
               IN /\ messages' = currentMessages
                  /\ pending' = Append(pending,
                         Request("send", "getNextInterviewerMessage", currentMessages,
                                 -1, EmptyStr, EmptyStr))
            /\ userInput' = EmptyStr
            /\ isTyping' = TRUE
            /\ evaluation' = Null
            /\ UNCHANGED <<lastCall, download, view, loading, error, role,
                           resumeText, resumeFile, analysis, config,
                           evaluationHistory>>

\* getNextInterviewerMessage resolved: setMessages(prev => [...prev, reply]).
SendResolved(i) ==
    /\ pending[i].op = "send"
    /\ \E text \in ResponseTexts :
         messages' = Append(messages, ChatMessage("interviewer", InterviewerReply(text)))
    /\ isTyping' = FALSE
    /\ pending' = RemoveAt(pending, i)
    /\ UNCHANGED <<lastCall, download, view, loading, error, role, resumeText,
                   resumeFile, analysis, config, userInput, evaluation,
                   evaluationHistory>>

\* catch (console.error) and finally of handleSendMessage.
SendRejected(i) ==
    /\ pending[i].op = "send"
    /\ isTyping' = FALSE
    /\ pending' = RemoveAt(pending, i)
    /\ UNCHANGED <<lastCall, download, view, loading, error, role, resumeText,
                   resumeFile, analysis, config, messages, userInput,
                   evaluation, evaluationHistory>>

----------------------------------------------------------------------------
(* handleEvaluate *)

\* The search as it would be from the front, findIndex(m => m.role === r):
\* the first turn of the role instead of the last.
FindFirstIndex(msgs, r) ==
    LET hits == {k \in 1..Len(msgs) : msgs[k].role = r}
    IN IF hits = {} THEN -1 ELSE (CHOOSE k \in hits : \A j \in hits : k <= j) - 1

\* findLastIndex(m => m.role === r): a 0-based index, or -1.
FindLastIndex(msgs, r) ==
    LET hits == {k \in 1..Len(msgs) : msgs[k].role = r}
    IN IF hits = {} THEN -1 ELSE (CHOOSE k \in hits : \A j \in hits : j <= k) - 1

\* messages[k] of the source, k a 0-based index: null when out of range.
At(msgs, k) == IF k >= 0 /\ k < Len(msgs) THEN Some(msgs[k + 1]) ELSE Null

\* { ...prev, [key]: value }
Put(history, key, value) ==
    [k \in DOMAIN history \cup {key} |-> IF k = key THEN value ELSE history[k]]

\* if (!lastUserMsg || !lastInterviewerMsg) return;
EvaluateIgnored ==
    \/ IsNull(At(messages, FindLastIndex(messages, "user")))
    \/ IsNull(At(messages, FindLastIndex(messages, "interviewer")))

\* handleEvaluate as it would be without the return for a missing turn, the
\* texts read with ?.text: the request is issued with what there is.
handleEvaluateWithoutReturn ==
    /\ view = "dashboard"
    /\ ~loading
    /\ Len(messages) >= 2
    /\ Len(pending) < MaxPending
    /\ LET lastUserMsg == At(messages, FindLastIndex(messages, "user"))
           lastInterviewerMsgIdx == FindLastIndex(messages, "interviewer")
           lastInterviewerMsg == At(messages, lastInterviewerMsgIdx)
       IN pending' = Append(pending,
              Request("evaluate", "evaluateAnswer", messages, lastInterviewerMsgIdx,
                      IF IsNull(lastInterviewerMsg) THEN EmptyStr
                      ELSE Get(lastInterviewerMsg).text,
                      IF IsNull(lastUserMsg) THEN EmptyStr ELSE Get(lastUserMsg).text))
    /\ loading' = TRUE
    /\ UNCHANGED <<lastCall, download, view, error, role, resumeText,
                   resumeFile, analysis, config, messages, userInput, isTyping,
                   evaluation, evaluationHistory>>

\* handleEvaluate up to its await.
\* The Evaluate button: disabled={loading || messages.length < 2}
handleEvaluate ==
    /\ view = "dashboard"
    /\ ~loading
    /\ Len(messages) >= 2
    /\ IF EvaluateIgnored
       THEN UNCHANGED vars
       ELSE /\ Len(pending) < MaxPending
            /\ LET lastUserMsg == Get(At(messages, FindLastIndex(messages, "user")))
                   lastInterviewerMsgIdx == FindLastIndex(messages, "interviewer")
                   lastInterviewerMsg == Get(At(messages, lastInterviewerMsgIdx))
               IN pending' = Append(pending,
                      Request("evaluate", "evaluateAnswer", messages,
                              lastInterviewerMsgIdx, lastInterviewerMsg.text,
                              lastUserMsg.text))
            /\ loading' = TRUE
            /\ UNCHANGED <<lastCall, download, view, error, role, resumeText,
                           resumeFile, analysis, config, messages, userInput,
                           isTyping, evaluation, evaluationHistory>>

\* The end of handleEvaluate as it would be with the history replaced by the
\* new entry ({[lastInterviewerMsgIdx + 1]: evalData}, without ...prev).
EvaluateResolvedReplacingHistory(i) ==
    /\ pending[i].op = "evaluate"
    /\ \E evalData \in EvaluationBodies :
         /\ evaluation' = Some(evalData)
         /\ evaluationHistory' = Put(EmptyHistory, pending[i].idx + 1, evalData)
    /\ loading' = FALSE
    /\ pending' = RemoveAt(pending, i)
    /\ UNCHANGED <<lastCall, download, view, error, role, resumeText,
                   resumeFile, analysis, config, messages, userInput, isTyping>>

\* evaluateAnswer resolved: the result is shown and stored.
EvaluateResolved(i) ==
    /\ pending[i].op = "evaluate"
    /\ \E evalData \in EvaluationBodies :
         /\ evaluation' = Some(evalData)
         /\ evaluationHistory' = Put(evaluationHistory, pending[i].idx + 1, evalData)
    /\ loading' = FALSE
    /\ pending' = RemoveAt(pending, i)
    /\ UNCHANGED <<lastCall, download, view, error, role, resumeText,
                   resumeFile, analysis, config, messages, userInput, isTyping>>

\* The catch of handleEvaluate as it would be if a failed evaluation also
\* closed the displayed one (setEvaluation(null)).
EvaluateRejectedClearingEvaluation(i) ==
    /\ pending[i].op = "evaluate"
    /\ evaluation' = Null
    /\ loading' = FALSE
    /\ pending' = RemoveAt(pending, i)
    /\ UNCHANGED <<lastCall, download, view, error, role, resumeText, resumeFile,
                   analysis, config, messages, userInput, isTyping, evaluationHistory>>

\* catch (console.error) and finally of handleEvaluate.
EvaluateRejected(i) ==
    /\ pending[i].op = "evaluate"
    /\ loading' = FALSE
    /\ pending' = RemoveAt(pending, i)
    /\ UNCHANGED <<lastCall, download, view, error, role, resumeText,
                   resumeFile, analysis, config, messages, userInput, isTyping,
                   evaluation, evaluationHistory>>

----------------------------------------------------------------------------
(* Dashboard: the remaining controls *)

\* onClick={() => setConfig(prev => ({...prev, difficulty: d}))}
SetDifficulty ==
    /\ view = "dashboard"
    /\ \E d \in DifficultyInputs : config' = [config EXCEPT !.difficulty = d]
    /\ UNCHANGED <<lastCall, download, view, loading, error, role, resumeText,
                   resumeFile, analysis, messages, userInput, isTyping,
                   evaluation, evaluationHistory, pending>>

\* onClick={() => setConfig(prev => ({...prev, category: c}))}
SetCategory ==
    /\ view = "dashboard"
    /\ \E c \in CategoryInputs : config' = [config EXCEPT !.category = c]
    /\ UNCHANGED <<lastCall, download, view, loading, error, role, resumeText,
                   resumeFile, analysis, messages, userInput, isTyping,
                   evaluation, evaluationHistory, pending>>

\* onClick={() => setConfig(prev => ({...prev, duration: t}))}
SetDuration ==
    /\ view = "dashboard"
    /\ \E t \in DurationInputs : config' = [config EXCEPT !.duration = t]
    /\ UNCHANGED <<lastCall, download, view, loading, error, role, resumeText,
                   resumeFile, analysis, messages, userInput, isTyping,
                   evaluation, evaluationHistory, pending>>

\* onClick={() => setConfig(prev => ({...prev, style: s}))}
SetStyle ==
    /\ view = "dashboard"
    /\ \E s \in StyleInputs : config' = [config EXCEPT !.style = s]
    /\ UNCHANGED <<lastCall, download, view, loading, error, role, resumeText,
                   resumeFile, analysis, messages, userInput, isTyping,
                   evaluation, evaluationHistory, pending>>

\* The Return to Landing button: onClick={() => setView('landing')}
ReturnToLanding ==
    /\ view = "dashboard"
    /\ view' = "landing"
    /\ UNCHANGED <<lastCall, download, loading, error, role, resumeText,
                   resumeFile, analysis, config, messages, userInput, isTyping,
                   evaluation, evaluationHistory, pending>>

\* The close button of the analysis card: onClick={() => setEvaluation(null)}
CloseEvaluation ==
    /\ view = "dashboard"
    /\ ~IsNull(evaluation)
    /\ evaluation' = Null
    /\ UNCHANGED <<lastCall, download, view, loading, error, role, resumeText,
                   resumeFile, analysis, config, messages, userInput, isTyping,
                   evaluationHistory, pending>>

----------------------------------------------------------------------------
(* handleExport *)

\* A line of the report: what stands before the value, and the value.
Line(kind, label, value) == [kind |-> kind, label |-> label, value |-> value]
BlankLine == Line("blank", "", "")

\* Array.prototype.join
RECURSIVE Join(_, _)
Join(items, sep) ==
    IF items = << >> THEN << >>
    ELSE IF Len(items) = 1 THEN <<items[1]>>
    ELSE <<items[1], sep>> \o Join(Tail(items), sep)

\* m.role.toUpperCase()
ToUpperCase(r) == IF r = "interviewer" THEN "INTERVIEWER" ELSE "USER"

\* role.replace(/\s+/g, '_'): every run of whitespace becomes one underscore.
RECURSIVE ReplaceWhitespace(_)
ReplaceWhitespace(s) ==
    IF s = << >> THEN << >>
    ELSE IF Head(s) \in Whitespace
         THEN <<"_">> \o ReplaceWhitespace(TrimStart(s))
         ELSE <<Head(s)>> \o ReplaceWhitespace(Tail(s))

\* new Date().toLocaleString()
Dates == {"11/6/2026, 2:00:00 PM"}

ReportHeader(date) ==
    << Line("title", "AI INTERVIEW INTELLIGENCE - SESSION REPORT", ""),
       Line("rule", "==========================================", ""),
       BlankLine,
       Line("header", "Role: ", role),
       Line("header", "Difficulty: ", config.difficulty),
       Line("header", "Interviewer Style: ", config.style),
       Line("header", "Date: ", date),
       BlankLine >>

\* if (analysis) { ... }
ReportAnalysis ==
    IF IsNull(analysis) THEN << >>
    ELSE << Line("title", "RESUME ANALYSIS", ""),
            Line("rule", "---------------", ""),
            Line("analysis", "Missing Skills: ", Join(Get(analysis).missingSkills, ", ")),
            Line("analysis", "Skill Scores: ",
                 <<Get(analysis).skillMap.dsa, Get(analysis).skillMap.systemDesign,
                   Get(analysis).skillMap.communication>>),
            BlankLine >>

\* The body of messages.forEach((m, idx) => ...) for the 0-based index idx.
ReportTurn(idx) ==
    <<Line("turn", ToUpperCase(messages[idx + 1].role), messages[idx + 1].text)>>
    \o (IF idx \in DOMAIN evaluationHistory
        THEN << Line("evaluation", "[EVALUATION] Score: ", evaluationHistory[idx].score),
                Line("feedback", "[FEEDBACK] ", evaluationHistory[idx].feedback),
                Line("tips", "[TIPS] ",
                     Join(evaluationHistory[idx].improvement_tips, " | ")) >>
        ELSE << >>)
    \o <<BlankLine>>

\* messages.forEach from the 0-based index idx on.
RECURSIVE ReportTranscriptFrom(_)
ReportTranscriptFrom(idx) ==
    IF idx >= Len(messages) THEN << >>
    ELSE ReportTurn(idx) \o ReportTranscriptFrom(idx + 1)

ReportTranscript ==
    << Line("title", "INTERVIEW TRANSCRIPT", ""),
       Line("rule", "--------------------", "") >>
    \o ReportTranscriptFrom(0)

Report(date) == ReportHeader(date) \o ReportAnalysis \o ReportTranscript

\* link.download
ReportFileName == <<"Interview_Report_">> \o ReplaceWhitespace(role) \o <<".txt">>

\* handleExport as it would be without the return for an empty transcript.
handleExportWithoutReturn ==
    /\ view = "dashboard"
    /\ \E date \in Dates :
         download' = Some([name |-> ReportFileName, report |-> Report(date)])
    /\ UNCHANGED <<lastCall, view, loading, error, role, resumeText, resumeFile,
                   analysis, config, messages, userInput, isTyping,
                   evaluation, evaluationHistory, pending>>

\* The Download Report button: onClick={handleExport}
handleExport ==
    /\ view = "dashboard"
    /\ IF messages = << >>
       THEN UNCHANGED vars
       ELSE /\ \E date \in Dates :
                 download' = Some([name |-> ReportFileName, report |-> Report(date)])
            /\ UNCHANGED <<lastCall, view, loading, error, role, resumeText, resumeFile,
                           analysis, config, messages, userInput, isTyping,
                           evaluation, evaluationHistory, pending>>

----------------------------------------------------------------------------
(* The external service answers one outstanding request *)

GatewayResponse ==
    \E i \in 1..Len(pending) :
        \/ StartAnalysisResolved(i)
        \/ StartFirstMessageResolved(i)
        \/ StartRejected(i)
        \/ SendResolved(i)
        \/ SendRejected(i)
        \/ EvaluateResolved(i)
        \/ EvaluateRejected(i)

Next ==
    \/ SetResumeText
    \/ GetStarted
    \/ ResetSession
    \/ SetUserInput
    \/ handleSendMessage
    \/ handleEvaluate
    \/ ReturnToLanding
    \/ CloseEvaluation
    \/ GatewayResponse

Spec == Init /\ [][Next]_vars

----------------------------------------------------------------------------
(* The intake form with every field, and the start of a session *)

StartResponse ==
    \E i \in 1..Len(pending) :
        \/ StartAnalysisResolved(i)
        \/ StartFirstMessageResolved(i)
        \/ StartRejected(i)

IntakeNext ==
    \/ SetRole
    \/ SetResumeText
    \/ SetResumeFile
    \/ GetStarted
    \/ ResetSession
    \/ ReturnToLanding
    \/ StartResponse

IntakeSpec == Init /\ [][IntakeNext]_vars

----------------------------------------------------------------------------
(* Starting, resetting and sending, without the evaluation of answers *)

SendResponse ==
    \E i \in 1..Len(pending) :
        \/ SendResolved(i)
        \/ SendRejected(i)

StartSendNext ==
    \/ SetResumeText
    \/ GetStarted
    \/ ResetSession
    \/ ReturnToLanding
    \/ SetUserInput
    \/ handleSendMessage
    \/ StartResponse
    \/ SendResponse

StartSendSpec == Init /\ [][StartSendNext]_vars

----------------------------------------------------------------------------
(* Every issued request is eventually answered: the oldest one always is *)

OldestAnswered ==
    /\ pending # << >>
    /\ \/ StartAnalysisResolved(1)
       \/ StartFirstMessageResolved(1)
       \/ StartRejected(1)
       \/ SendResolved(1)
       \/ SendRejected(1)
       \/ EvaluateResolved(1)
       \/ EvaluateRejected(1)

LiveSpec == Init /\ [][Next]_vars /\ WF_vars(OldestAnswered)

----------------------------------------------------------------------------
(* One session, without a reset: the evaluation of answers *)

EvaluateNext ==
    \/ SetResumeText
    \/ GetStarted
    \/ SetUserInput
    \/ handleSendMessage
    \/ handleEvaluate
    \/ CloseEvaluation
    \/ GatewayResponse

EvaluateSpec == Init /\ [][EvaluateNext]_vars

----------------------------------------------------------------------------
(* One session, without a reset: the download of the report *)

ExportNext ==
    \/ SetResumeText
    \/ GetStarted
    \/ SetUserInput
    \/ handleSendMessage
    \/ handleEvaluate
    \/ handleExport
    \/ GatewayResponse

ExportSpec == Init /\ [][ExportNext]_vars

----------------------------------------------------------------------------
(* Starting and resetting sessions, with the configuration buttons *)

ConfigNext ==
    \/ SetResumeText
    \/ GetStarted
    \/ ResetSession
    \/ ReturnToLanding
    \/ SetDifficulty
    \/ SetCategory
    \/ SetDuration
    \/ SetStyle
    \/ StartResponse

ConfigSpec == Init /\ [][ConfigNext]_vars

----------------------------------------------------------------------------
(* Sessions started again from the landing view, with send and evaluate *)

RestartNext ==
    \/ SetResumeText
    \/ GetStarted
    \/ ReturnToLanding
    \/ SetUserInput
    \/ handleSendMessage
    \/ handleEvaluate
    \/ GatewayResponse

RestartSpec == Init /\ [][RestartNext]_vars

----------------------------------------------------------------------------
(* The gateway functions, on the responses the service may give *)

\* The React state of App, which a call of a gateway function does not touch.
session == <<view, loading, error, role, resumeText, resumeFile, analysis, config,
             messages, userInput, isTyping, evaluation, evaluationHistory, pending,
             download>>

\* A property of a parsed object is undefined (Null) or has a value.
Optional(v) == {Null, Some(v)}

\* The objects a JSON body may encode where ANALYSIS_SCHEMA was asked for.
SkillMapObjects ==
    [dsa : Optional(70), systemDesign : Optional(55), communication : Optional(80)]
AnalysisObjects ==
    [missingSkills : Optional(<<"GraphQL">>),
     followUpQuestions : Optional(<<"q1", "q2", "q3">>),
     skillMap : {Null} \cup {Some(m) : m \in SkillMapObjects}]

\* The objects a JSON body may encode where EVALUATION_SCHEMA was asked for.
EvaluationObjects ==
    [score : Optional(7), feedback : Optional("good"),
     improvement_tips : Optional(<<"tip">>),
     model_answer_outline : Optional("outline")]

\* The objects a JSON body may encode where the generator's SCHEMA was asked
\* for, with one question.
QuestionObjects ==
    [id : Optional(1), text : Optional("question"), type : Optional("behavioral"),
     difficulty : Optional("medium"), rationale : Optional("why"),
     follow_ups : Optional(<<"follow-up">>)]
GeneratorObjects ==
    [job_role : Optional("Senior Frontend Developer"),
     experience_level_hint : Optional("senior"),
     questions : {Null} \cup {Some(<<q>>) : q \in QuestionObjects}]

\* response.text of a schema-backed call: undefined (Null), the empty string,
\* a text that is not JSON, or the JSON text of an object.
Text(kind, value) == Some([kind |-> kind, value |-> value])
Texts(objects) ==
    {Null, Text("empty", Null), Text("not json", Null)}
    \cup {Text("json", Some(o)) : o \in objects}

\* What a call ends in: a returned value or a thrown error.
Return(v) == [kind |-> "return", value |-> Some(v), error |-> ""]
Throw(e) == [kind |-> "throw", value |-> Null, error |-> e]

\* JSON.parse(text): the encoded object as it is, or a SyntaxError.
JSONParse(text) ==
    IF IsNull(text) \/ Get(text).kind # "json"
    THEN Throw("SyntaxError")
    ELSE Return(Get(Get(text).value))

\* return JSON.parse(response.text!) as ResumeAnalysis;
analyzeResume(text) == JSONParse(text)

\* return JSON.parse(response.text!) as EvaluationResult;
evaluateAnswer(text) == JSONParse(text)

\* if (!resultText) throw ...; return JSON.parse(resultText) as GeneratorOutput;
generateQuestions(text) ==
    IF IsNull(text) \/ Get(text).kind = "empty"
    THEN Throw("Empty response from AI")
    ELSE JSONParse(text)

\* return response.text || "I apologize, could you repeat that?";
getNextInterviewerMessage(text) ==
    IF IsNull(text) THEN Return(FallbackReply) ELSE Return(InterviewerReply(Get(text)))

\* required: [...] of the three schemas, nested ones included.
AnalysisComplete(o) ==
    /\ ~IsNull(o.missingSkills)
    /\ ~IsNull(o.followUpQuestions)
    /\ ~IsNull(o.skillMap)
    /\ \A f \in {"dsa", "systemDesign", "communication"} : ~IsNull(Get(o.skillMap)[f])
EvaluationComplete(o) ==
    \A f \in {"score", "feedback", "improvement_tips", "model_answer_outline"} :
        ~IsNull(o[f])
GeneratorComplete(o) ==
    /\ ~IsNull(o.job_role)
    /\ ~IsNull(o.experience_level_hint)
    /\ ~IsNull(o.questions)
    /\ \A k \in 1..Len(Get(o.questions)) :
         \A f \in {"id", "text", "type", "difficulty", "rationale", "follow_ups"} :
             ~IsNull(Get(o.questions)[k][f])
Complete(op, o) ==
    IF op = "analyzeResume" THEN AnalysisComplete(o)
    ELSE IF op = "evaluateAnswer" THEN EvaluationComplete(o)
    ELSE GeneratorComplete(o)

Call(op, text, outcome) == Some([op |-> op, text |-> text, outcome |-> outcome])

CallAnalyzeResume ==
    /\ \E text \in Texts(AnalysisObjects) :
         lastCall' = Call("analyzeResume", text, analyzeResume(text))
    /\ UNCHANGED session

CallEvaluateAnswer ==
    /\ \E text \in Texts(EvaluationObjects) :
         lastCall' = Call("evaluateAnswer", text, evaluateAnswer(text))
    /\ UNCHANGED session

CallGenerateQuestions ==
    /\ \E text \in Texts(GeneratorObjects) :
         lastCall' = Call("generateQuestions", text, generateQuestions(text))
    /\ UNCHANGED session

CallGetNextInterviewerMessage ==
    /\ \E text \in {Null} \cup {Some(t) : t \in ResponseTexts} :
         lastCall' = Call("getNextInterviewerMessage", text,
                          getNextInterviewerMessage(text))
    /\ UNCHANGED session

GatewayNext ==
    \/ CallAnalyzeResume
    \/ CallEvaluateAnswer
    \/ CallGenerateQuestions
    \/ CallGetNextInterviewerMessage

GatewaySpec == Init /\ [][GatewayNext]_vars

----------------------------------------------------------------------------
(* Claims *)

InterviewerCall == "getNextInterviewerMessage"

\* C1: in every reachable state at most one gateway request of the session is
\* outstanding.
C1_AtMostOneOutstanding == Len(pending) <= 1

\* C2: every key of the evaluation history is the index of an existing turn of
\* the transcript, and that turn is a candidate ('user') turn.
C2_KeysReferToCandidateTurns ==
    \A k \in DOMAIN evaluationHistory :
        /\ 0 <= k
        /\ k < Len(messages)
        /\ messages[k + 1].role = "user"

\* C3: whenever evaluate() stores a result, the key it stores it under is the
\* transcript index of the candidate turn whose text it passed as the answer.
C3_KeyIsIndexOfAnswer ==
    [][\A i \in 1..Len(pending) :
          EvaluateResolved(i) =>
              pending[i].idx + 1 = FindLastIndex(pending[i].history, "user")]_vars

\* C4: start() with an empty role, or with neither resume text nor resume file,
\* sets a non-empty error message, issues no gateway request, and leaves view,
\* transcript, analysis, evaluation history, loading and isTyping as they were
\* when it was called (the Reset Session button has emptied the transcript
\* before it calls start()).
C4_InvalidStartOnlySetsError ==
    [][(StartInputInvalid /\ (GetStarted \/ ResetSession)) =>
          /\ ~IsNull(error') /\ Get(error') # EmptyStr
          /\ pending' = pending
          /\ view' = view
          /\ analysis' = analysis
          /\ evaluationHistory' = evaluationHistory
          /\ loading' = loading
          /\ isTyping' = isTyping
          /\ messages' = IF view = "landing" THEN messages ELSE << >>]_vars

\* C4 witness: a start was refused for a missing role or resume.
C4_Witness ==
    /\ StartInputInvalid
    /\ error = Some(ValidationMessage)
    /\ pending = << >>

\* C5: when a start() whose two gateway calls succeeded completes, the
\* transcript is exactly one interviewer turn and the analysis is not null.
C5_StartYieldsOneInterviewerTurn ==
    [][\A i \in 1..Len(pending) :
          StartFirstMessageResolved(i) =>
              /\ Len(messages') = 1
              /\ messages'[1].role = "interviewer"
              /\ ~IsNull(analysis')]_vars

\* C5 witness: a start has completed while a send of the previous session was
\* still outstanding, and left one interviewer turn.
C5_Witness ==
    /\ view = "dashboard"
    /\ Len(messages) = 1
    /\ messages[1].role = "interviewer"
    /\ ~IsNull(analysis)
    /\ ~loading
    /\ \E i \in 1..Len(pending) : pending[i].op = "send"

\* C6: when a gateway call of start() fails, start() completes with the view
\* still 'landing' and a non-empty error message.
C6_FailedStartStaysInIntake ==
    [][\A i \in 1..Len(pending) :
          StartRejected(i) =>
              /\ view' = "landing"
              /\ ~IsNull(error') /\ Get(error') # EmptyStr]_vars

\* C7: every state in which loading or isTyping is true is eventually followed
\* by a state with no outstanding request and both flags false.
C7_BusyLeadsToIdle ==
    (loading \/ isTyping) ~> (pending = << >> /\ ~loading /\ ~isTyping)

\* C8: a send() invoked while a gateway call of start() or of an earlier send()
\* is outstanding changes nothing.
C8_SendIgnoredWhileBusy ==
    [][(handleSendMessage /\ \E i \in 1..Len(pending) : pending[i].op \in {"start", "send"})
          => UNCHANGED vars]_vars

\* C9: an outstanding gateway call of start() implies loading, and an
\* outstanding getNextInterviewerMessage call implies isTyping.
C9_BusyWhileOutstanding ==
    /\ (\E i \in 1..Len(pending) : pending[i].op = "start") => loading
    /\ (Outstanding(InterviewerCall) # {}) => isTyping

\* C10: no getNextInterviewerMessage request is issued while an earlier one is
\* outstanding (so replies are appended in the order of their requests).
C10_InterviewerRequestsSequential ==
    Cardinality(Outstanding(InterviewerCall)) <= 1

\* The transcript before the send that issued the request: the transcript its
\* closure holds, without the candidate turn that the send appended.
BeforeSend(request) == SubSeq(request.history, 1, Len(request.history) - 1)

\* C11: when the gateway call of a send() fails, the transcript is the one
\* from before that send() was invoked, and the failure changes neither the
\* evaluation history nor the analysis.
C11_FailedSendRestoresTranscript ==
    [][\A i \in 1..Len(pending) :
          SendRejected(i) =>
              /\ messages' = BeforeSend(pending[i])
              /\ evaluationHistory' = evaluationHistory
              /\ analysis' = analysis]_vars

\* C12: every failed gateway call, of start(), send() or evaluate(), leaves a
\* non-null error message when its handler completes.
C12_EveryFailureSetsError ==
    [][\A i \in 1..Len(pending) :
          (StartRejected(i) \/ SendRejected(i) \/ EvaluateRejected(i)) =>
              ~IsNull(error')]_vars

\* C13: a successful evaluate() sets the entry of the evaluation history whose
\* key is one more than the index that the last interviewer turn had when
\* evaluate() was invoked, to the result that the gateway returned, and changes
\* no other entry and not the transcript.
C13_EvaluateSetsOneEntry ==
    [][\A i \in 1..Len(pending) :
          EvaluateResolved(i) =>
              LET key == FindLastIndex(pending[i].history, "interviewer") + 1
              IN /\ DOMAIN evaluationHistory' = DOMAIN evaluationHistory \cup {key}
                 /\ evaluationHistory'[key] \in EvaluationBodies
                 /\ evaluation' = Some(evaluationHistory'[key])
                 /\ \A k \in DOMAIN evaluationHistory \ {key} :
                        evaluationHistory'[k] = evaluationHistory[k]
                 /\ messages' = messages]_vars

\* C13 witness: a second evaluation has been stored next to the first one.
C13_Witness ==
    /\ Cardinality(DOMAIN evaluationHistory) >= 2
    /\ ~IsNull(evaluation)
    /\ pending = << >>

\* C14: evaluate() on a transcript without a candidate turn, or without an
\* interviewer turn, does nothing: no gateway request is issued, and evaluation
\* history, displayed evaluation, transcript, loading and error stay as they
\* were.
C14_EvaluateWithoutTurnsIsNoOp ==
    [][(/\ handleEvaluate
        /\ \/ FindLastIndex(messages, "user") = -1
           \/ FindLastIndex(messages, "interviewer") = -1)
          => /\ pending' = pending
             /\ evaluationHistory' = evaluationHistory
             /\ evaluation' = evaluation
             /\ messages' = messages
             /\ loading' = loading
             /\ error' = error]_vars

\* C14 witness: the Evaluate button is enabled on a transcript of two candidate
\* turns and no interviewer turn, with no request outstanding.
C14_Witness ==
    /\ view = "dashboard"
    /\ ~loading
    /\ Len(messages) >= 2
    /\ FindLastIndex(messages, "interviewer") = -1
    /\ FindLastIndex(messages, "user") # -1
    /\ pending = << >>

\* C15: immediately after the Reset Session control the view is 'landing', the
\* transcript is empty, the analysis is null and the evaluation history is
\* empty.
C15_ResetReturnsToIntake ==
    [][ResetSession =>
          /\ view' = "landing"
          /\ messages' = << >>
          /\ IsNull(analysis')
          /\ evaluationHistory' = EmptyHistory]_vars

\* C16: right after a reset followed by start(), before the analysis call of
\* the new start has resolved, the transcript and the evaluation history are
\* both empty.
C16_EmptyBetweenResetAndAnalysis ==
    [][(ResetSession /\ ~StartInputInvalid) =>
          /\ messages' = << >>
          /\ evaluationHistory' = EmptyHistory]_vars

\* C17: while the new start() that has cleared the transcript and the
\* evaluation history awaits its first message, no request issued before that
\* clear (it stands before the start's request in `pending') adds its reply to
\* the transcript or its result to the evaluation history.
C17_NothingFromBeforeTheClear ==
    [][\A i \in 1..Len(pending) :
          (\E k \in (i + 1)..Len(pending) :
               pending[k].op = "start" /\ pending[k].call = InterviewerCall)
          => /\ SendResolved(i) => messages' = messages
             /\ EvaluateResolved(i) => evaluationHistory' = evaluationHistory]_vars

\* The lines of a report that are turn lines, in their order.
TurnLines(report) == SelectSeq(report, LAMBDA l : l.kind = "turn")

\* The positions of a report at which an evaluation block begins.
EvaluationBlocks(report) == {p \in 1..Len(report) : report[p].kind = "evaluation"}

\* C18: the report that export() produces for a session with N >= 1 turns and
\* K stored evaluations has exactly N turn lines, prefixed by the role and in
\* transcript order, and exactly K evaluation blocks, each directly after the
\* line of a candidate turn.
C18_ReportHasEveryTurnAndEvaluation ==
    [][(handleExport /\ Len(messages) >= 1) =>
          LET report == Get(download').report
          IN /\ Len(TurnLines(report)) = Len(messages)
             /\ \A k \in 1..Len(messages) :
                    /\ TurnLines(report)[k].label = ToUpperCase(messages[k].role)
                    /\ TurnLines(report)[k].value = messages[k].text
             /\ Cardinality(EvaluationBlocks(report)) = Cardinality(DOMAIN evaluationHistory)
             /\ \A p \in EvaluationBlocks(report) :
                    /\ p > 1
                    /\ report[p - 1].kind = "turn"
                    /\ report[p - 1].label = "USER"]_vars

\* C19: export() leaves transcript, evaluation history, analysis,
\* configuration, view, the busy flags and the rest of the session as they
\* are, and with an empty transcript it produces no report.
C19_ExportChangesNoSessionState ==
    [][handleExport =>
          /\ UNCHANGED <<messages, evaluationHistory, analysis, config, view, loading,
                         isTyping, error, role, resumeText, resumeFile, userInput,
                         evaluation, pending>>
          /\ messages = << >> => download' = download]_vars

\* C19 witness: a report of the transcript has been downloaded while a request
\* of the session was outstanding.
C19_Witness ==
    /\ ~IsNull(download)
    /\ Len(TurnLines(Get(download).report)) = Len(messages)
    /\ Len(messages) >= 2
    /\ pending # << >>

\* C20: while the view is 'dashboard' the configuration changes only in a step
\* that starts a new session (the Reset Session button, or a step of the start
\* it invokes); no other user intent changes it.
C20_ConfigImmutableDuringChat ==
    [][(view = "dashboard" /\ config' # config) =>
          \/ ResetSession
          \/ \E i \in 1..Len(pending) :
                 StartAnalysisResolved(i) \/ StartFirstMessageResolved(i)]_vars

\* The fields of the configuration that a step changes.
ChangedFields == {f \in DOMAIN config : config'[f] # config[f]}

\* C20, amended: the configuration changes only while the view is 'dashboard',
\* in a step that changes exactly one of difficulty, category, duration and
\* style and nothing else: it starts no session, issues and answers no request,
\* and leaves view, transcript, analysis and evaluation history as they are.
\* Get Started, Reset Session, Return to Landing and the responses to a start
\* never change it.
C20_ConfigChangesOnlyByItsButtons ==
    [][config' # config =>
          /\ view = "dashboard"
          /\ Cardinality(ChangedFields) = 1
          /\ UNCHANGED <<view, loading, error, role, resumeText, resumeFile, analysis,
                         messages, userInput, isTyping, evaluation, evaluationHistory,
                         pending, download>>]_vars

\* C20 witness: the configuration has been changed during an active chat: the
\* first interviewer turn is there and no request is outstanding.
C20_Witness ==
    /\ view = "dashboard"
    /\ config # InitialConfig
    /\ Len(messages) = 1
    /\ pending = << >>

\* The calls of the schema-backed functions.
SchemaBacked == {"analyzeResume", "evaluateAnswer", "generateQuestions"}

\* C22: a call of analyzeResume, evaluateAnswer or generateQuestions whose
\* response is valid JSON but lacks a required field of the schema fails: it
\* throws, and returns no partially populated result.
C22_MissingFieldFails ==
    \A c \in lastCall :
        (/\ c.op \in SchemaBacked
         /\ ~IsNull(c.text)
         /\ Get(c.text).kind = "json"
         /\ ~Complete(c.op, Get(Get(c.text).value)))
        => c.outcome.kind = "throw"

\* C21: every step other than a session clear of start or reset (the Reset
\* Session button, setMessages([]) after the analysis) leaves the transcript
\* as it is or adds exactly one turn at its end.
C21_TranscriptAppendOnly ==
    [][(~ResetSession /\ ~\E i \in 1..Len(pending) : StartAnalysisResolved(i)) =>
          \/ messages' = messages
          \/ /\ Len(messages') = Len(messages) + 1
             /\ SubSeq(messages', 1, Len(messages)) = messages]_vars

\* C23: an empty response never fails a turn: when the call of start() or
\* send() to getNextInterviewerMessage resolves, the transcript ends with an
\* interviewer turn whose text is the service's text where that is not empty,
\* and the string "I apologize, could you repeat that?" where it is.
C23_EmptyReplyBecomesFallback ==
    [][\A i \in 1..Len(pending) :
          (SendResolved(i) \/ StartFirstMessageResolved(i)) =>
              /\ messages' # << >>
              /\ messages'[Len(messages')].role = "interviewer"
              /\ \E text \in ResponseTexts :
                     messages'[Len(messages')].text =
                         IF text = EmptyStr
                         THEN <<"I apologize, could you repeat that?">>
                         ELSE text]_vars

\* C23 witness: the transcript holds an interviewer turn with the fallback
\* string and an interviewer turn with the text of the service.
C23_Witness ==
    /\ \E k \in 1..Len(messages) :
           /\ messages[k].role = "interviewer"
           /\ messages[k].text = <<"I apologize, could you repeat that?">>
    /\ \E k \in 1..Len(messages) :
           /\ messages[k].role = "interviewer"
           /\ messages[k].text = Str("question")

\* C29: every turn of the transcript has a text that is not empty, and the
\* text of a candidate turn has a character that is not whitespace.
C29_NoEmptyTurn ==
    \A k \in 1..Len(messages) :
        /\ messages[k].text # EmptyStr
        /\ messages[k].role = "user" => Trim(messages[k].text) # EmptyStr

\* C29 witness: the transcript holds a candidate turn and an interviewer turn
\* that carries the fallback string, and nothing is outstanding.
C29_Witness ==
    /\ pending = << >>
    /\ \E k \in 1..Len(messages) : messages[k].role = "user"
    /\ \E k \in 1..Len(messages) :
           messages[k] = ChatMessage("interviewer", FallbackReply)

\* C28: a transcript that is not empty begins with an interviewer turn.
C28_FirstTurnIsInterviewer ==
    messages # << >> => messages[1].role = "interviewer"

\* C24: a send() of a text that is not blank, made while no request is
\* outstanding, appends one candidate turn with that text and issues one
\* request to getNextInterviewerMessage whose history is the whole transcript,
\* the new candidate turn last; and the step in which that request succeeds
\* appends one interviewer turn with the reply: two turns, candidate then
\* interviewer.
C24_SendAppendsCandidateThenReply ==
    [][/\ (handleSendMessage /\ Trim(userInput) # EmptyStr /\ pending = << >>) =>
            /\ messages' = Append(messages, [role |-> "user", text |-> userInput])
            /\ Len(pending') = 1
            /\ pending'[1].call = InterviewerCall
            /\ pending'[1].history = messages'
       /\ \A i \in 1..Len(pending) :
            SendResolved(i) =>
                /\ Len(messages') = Len(messages) + 1
                /\ SubSeq(messages', 1, Len(messages)) = messages
                /\ messages'[Len(messages')].role = "interviewer"
                /\ pending[i].history = messages =>
                       /\ Len(messages') >= 2
                       /\ messages'[Len(messages') - 1].role = "user"]_vars

\* C24 witness: a send made with nothing outstanding has been answered: the
\* transcript ends with the candidate turn and the reply to it, after the
\* first interviewer turn.
C24_Witness ==
    /\ pending = << >>
    /\ Len(messages) = 3
    /\ messages[1].role = "interviewer"
    /\ messages[2] = ChatMessage("user", Str("answer"))
    /\ messages[3].role = "interviewer"

\* The text of the turn of role r with the highest index in msgs, if any.
TextOfLast(msgs, r) ==
    {msgs[k].text : k \in {k \in 1..Len(msgs) :
                              /\ msgs[k].role = r
                              /\ \A j \in (k + 1)..Len(msgs) : msgs[j].role # r}}

\* C25: evaluate() issues its request only when the transcript has an
\* interviewer turn and a candidate turn, and the question and the answer it
\* passes to evaluateAnswer are the texts of the interviewer turn and of the
\* candidate turn with the highest index, wherever the other one stands.
C25_EvaluatesLastQuestionAndAnswer ==
    [][(handleEvaluate /\ pending' # pending) =>
          LET request == pending'[Len(pending')]
          IN /\ pending' = Append(pending, request)
             /\ request.call = "evaluateAnswer"
             /\ TextOfLast(messages, "interviewer") = {request.question}
             /\ TextOfLast(messages, "user") = {request.answer}]_vars

\* C25 witness: an evaluation is outstanding for a transcript in which the
\* last interviewer turn stands after the last candidate turn and differs from
\* the interviewer turn before it.
C25_Witness ==
    \E i \in 1..Len(pending) :
        /\ pending[i].op = "evaluate"
        /\ Len(pending[i].history) = 3
        /\ pending[i].history[2].role = "user"
        /\ pending[i].history[3].role = "interviewer"
        /\ pending[i].history[1].text # pending[i].history[3].text
        /\ pending[i].question = pending[i].history[3].text

\* C26: the analysis changes only in the step in which the analyzeResume call
\* of a start() resolves, and becomes what that call returned; send, evaluate,
\* Return to Landing, and every rejected call leave it as it is.
C26_AnalysisWrittenOnlyByStart ==
    [][analysis' # analysis =>
          /\ \E i \in 1..Len(pending) : StartAnalysisResolved(i)
          /\ analysis' \in {Some(body) : body \in AnalysisBodies}]_vars

\* C26 witness: the analysis of a session is still there after an evaluation
\* was stored, the user returned to the landing view and a later start failed.
C26_Witness ==
    /\ ~IsNull(analysis)
    /\ view = "landing"
    /\ ~IsNull(error)
    /\ evaluationHistory # EmptyHistory
    /\ pending = << >>

\* C27: an evaluate() whose gateway call fails changes neither the evaluation
\* history nor the displayed evaluation nor the transcript, in the step that
\* issues the request and in the step of the failure, and the failure leaves
\* loading false.
C27_FailedEvaluateChangesNothing ==
    [][/\ handleEvaluate => UNCHANGED <<evaluationHistory, evaluation, messages>>
       /\ \A i \in 1..Len(pending) :
            EvaluateRejected(i) =>
                /\ UNCHANGED <<evaluationHistory, evaluation, messages>>
                /\ loading' = FALSE]_vars

\* C27 witness: a second evaluation has been requested while the result of the
\* first is displayed and stored, so that its failure has something to keep.
C27_Witness ==
    /\ ~IsNull(evaluation)
    /\ evaluationHistory # EmptyHistory
    /\ loading
    /\ \E i \in 1..Len(pending) : pending[i].op = "evaluate"

=============================================================================
